---------------------------- MODULE Spec2Model ----------------------------
(***************************************************************************)
(* Model of optuna/samplers/_tpe/parzen_estimator.py: the Parzen estimator *)
(* of the TPE sampler.  Floating-point quantities are carried as exact     *)
(* rationals extended with NaN and the two infinities; arrays are          *)
(* sequences; dictionaries are functions.                                  *)
(***************************************************************************)
EXTENDS Integers, Sequences, FiniteSets, TLC

VARIABLES
    observations,           \* caller's dict: parameter name -> array of native values
    search_space,           \* caller's dict: parameter name -> distribution
    parameters,             \* _ParzenEstimatorParameters (without the weights callable)
    predetermined_weights,  \* caller's array object, or None: [given, arr]
    weights_func_ret,       \* the array object parameters.weights(n) hands back
    pc,                     \* "new", "built", "raised" (facade) / "called", "returned"
    _search_space,          \* self._search_space
    _mixture_distribution,  \* self._mixture_distribution
    sampled,                \* structured array last drawn by _sample (working domain)
    returned,               \* value last returned by sample / log_pdf / a builder
    call                    \* arguments of a direct call of one of the builders

vars == <<observations, search_space, parameters, predetermined_weights,
          weights_func_ret, pc, _search_space, _mixture_distribution,
          sampled, returned, call>>

-----------------------------------------------------------------------------
(* Bounds of the model.                                                    *)

\* largest number of observations handed to the estimator
MaxObs == 2

-----------------------------------------------------------------------------
(* Floating-point numbers: rationals n/d (d > 0, lowest terms), NaN, +-inf *)

Abs(i) == IF i < 0 THEN -i ELSE i

RECURSIVE GCD(_, _)
GCD(a, b) == IF b = 0 THEN a ELSE GCD(b, a % b)

Q(n, d) ==
    LET s == IF d < 0 THEN -1 ELSE 1
        g == GCD(Abs(n), Abs(d))
    IN  [k |-> "fin", n |-> (s * n) \div g, d |-> (s * d) \div g]

Z(i) == [k |-> "fin", n |-> i, d |-> 1]

NaN == [k |-> "nan", n |-> 0, d |-> 1]

Inf(s) == [k |-> "inf", n |-> s, d |-> 1]

isfinite(a) == a.k = "fin"

Sign(a) == IF a.n < 0 THEN -1 ELSE 1

FNeg(a) == [a EXCEPT !.n = -a.n]

FAdd(a, b) ==
    IF a.k = "nan" \/ b.k = "nan" THEN NaN
    ELSE IF a.k = "inf" /\ b.k = "inf" THEN (IF a.n = b.n THEN a ELSE NaN)
    ELSE IF a.k = "inf" THEN a
    ELSE IF b.k = "inf" THEN b
    ELSE Q(a.n * b.d + b.n * a.d, a.d * b.d)

FSub(a, b) == FAdd(a, FNeg(b))

FMul(a, b) ==
    IF a.k = "nan" \/ b.k = "nan" THEN NaN
    ELSE IF a.k = "inf" \/ b.k = "inf"
         THEN (IF a.n = 0 \/ b.n = 0 THEN NaN ELSE Inf(Sign(a) * Sign(b)))
    ELSE Q(a.n * b.n, a.d * b.d)

FDiv(a, b) ==
    IF a.k = "nan" \/ b.k = "nan" THEN NaN
    ELSE IF a.k = "inf" THEN (IF b.k = "inf" THEN NaN ELSE Inf(Sign(a) * Sign(b)))
    ELSE IF b.k = "inf" THEN Z(0)
    ELSE IF b.n = 0 THEN (IF a.n = 0 THEN NaN ELSE Inf(Sign(a)))
    ELSE Q(a.n * b.d, a.d * b.n)

\* a < b; every comparison with NaN is false
FLt(a, b) ==
    IF a.k = "nan" \/ b.k = "nan" THEN FALSE
    ELSE IF a.k = "inf" THEN a.n < 0 /\ ~(b.k = "inf" /\ b.n < 0)
    ELSE IF b.k = "inf" THEN b.n > 0
    ELSE a.n * b.d < b.n * a.d

FLe(a, b) ==
    IF a.k = "nan" \/ b.k = "nan" THEN FALSE
    ELSE a = b \/ FLt(a, b)

\* np.maximum / np.minimum on finite values
FMax(a, b) == IF FLt(a, b) THEN b ELSE a

FMin(a, b) == IF FLt(b, a) THEN b ELSE a

\* np.clip(a, lo, hi) = minimum(maximum(a, lo), hi); when lo > hi the result is hi
clip(a, lo, hi) == FMin(FMax(a, lo), hi)

\* np.round: to the nearest integer, ties to the even one
round(a) ==
    LET f == a.n \div a.d
        r == a.n - f * a.d
    IN  IF 2 * r < a.d THEN Z(f)
        ELSE IF 2 * r > a.d THEN Z(f + 1)
        ELSE IF f % 2 = 0 THEN Z(f) ELSE Z(f + 1)

RECURSIVE FSum(_)
FSum(s) == IF s = <<>> THEN Z(0) ELSE FAdd(Head(s), FSum(Tail(s)))

\* s[:n]
Take(s, n) == SubSeq(s, 1, IF n < Len(s) THEN n ELSE Len(s))

\* s[n:]
Drop(s, n) == SubSeq(s, n + 1, Len(s))

-----------------------------------------------------------------------------
(* _calculate_weights                                                      *)

NoWeights == <<>>

\* The three checks of the weights function's output, in the code's order.
InvalidWeights(w) ==
    \/ \E i \in 1..Len(w) : FLt(w[i], Z(0))
    \/ Len(w) > 0 /\ FLe(FSum(w), Z(0))
    \/ ~ \A i \in 1..Len(w) : isfinite(w[i])

\* weights /= weights.sum()
Normalize(weights) == [i \in 1..Len(weights) |-> FDiv(weights[i], FSum(weights))]

\* the checks without the one for non-finite entries
InvalidWeightsFiniteUnchecked(w) ==
    \/ \E i \in 1..Len(w) : FLt(w[i], Z(0))
    \/ Len(w) > 0 /\ FLe(FSum(w), Z(0))

\* _calculate_weights without the isfinite check
_calculate_weights_finite_unchecked(predetermined, wf_ret, n_observations, params) ==
    LET consider_prior == params.consider_prior \/ n_observations = 0
        w == IF ~predetermined.given THEN Take(wf_ret, n_observations)
             ELSE Take(predetermined.arr, n_observations)
        weights == IF consider_prior THEN Append(w, params.prior_weight) ELSE w
    IN  IF ~predetermined.given /\ InvalidWeightsFiniteUnchecked(w)
        THEN [raised |-> "ValueError", weights |-> NoWeights, inplace |-> FALSE]
        ELSE [raised |-> "none", weights |-> Normalize(weights),
              inplace |-> ~consider_prior]

\* _calculate_weights normalizing before the prior weight is stored
_calculate_weights_prior_after(predetermined, wf_ret, n_observations, params) ==
    LET consider_prior == params.consider_prior \/ n_observations = 0
        w == IF ~predetermined.given THEN Take(wf_ret, n_observations)
             ELSE Take(predetermined.arr, n_observations)
    IN  IF ~predetermined.given /\ InvalidWeights(w)
        THEN [raised |-> "ValueError", weights |-> NoWeights, inplace |-> FALSE]
        ELSE [raised |-> "none",
              weights |-> IF consider_prior
                          THEN Append(Normalize(w), params.prior_weight)
                          ELSE Normalize(w),
              inplace |-> ~consider_prior]

\* Returns [raised, weights, inplace]: raised is "ValueError" or "none";
\* inplace tells that `weights` is a view of the array w was sliced from, so
\* that the in-place division wrote into that array.

_calculate_weights(predetermined, wf_ret, n_observations, params) ==
    LET consider_prior == params.consider_prior \/ n_observations = 0
        w == IF ~predetermined.given THEN Take(wf_ret, n_observations)
             ELSE Take(predetermined.arr, n_observations)
        weights == IF consider_prior THEN Append(w, params.prior_weight) ELSE w
    IN  IF ~predetermined.given /\ InvalidWeights(w)
        THEN [raised |-> "ValueError", weights |-> NoWeights, inplace |-> FALSE]
        ELSE [raised |-> "none", weights |-> Normalize(weights),
              inplace |-> ~consider_prior]

-----------------------------------------------------------------------------
(* Constants of the module and the numpy functions it uses                 *)

\* EPS = 1e-12 in the source.  TLC's integers are 32 bits wide, so the model
\* carries the constant as 1e-3: it stays below every non-zero gap between
\* the working-domain values the model draws (multiples of 1e-2), as 1e-12
\* stays below the gaps of ordinary domains.
EPS == Q(1, 1000)

SIGMA0_MAGNITUDE == Q(1, 5)

None == [k |-> "none", n |-> 0, d |-> 1]

\* `step or 0`
StepOr0(step) == IF step = None THEN Z(0) ELSE step

\* np.log on the quarters 1/4 .. 20/4, to two decimals (in hundredths)
LogTable == << -139, -69, -29, 0, 22, 41, 56, 69, 81, 92,
               101, 110, 118, 125, 132, 139, 145, 150, 156, 161 >>

log(v) == Q(LogTable[(v.n * 4) \div v.d], 100)

\* np.exp, the inverse of the table above
exp(x) == Q(CHOOSE q \in 1..Len(LogTable) : Q(LogTable[q], 100) = x, 4)

\* max(n, 1) ** (-1.0 / (d + 4)), to two decimals, for n <= 6 and d <= 3
PowTable == << <<100, 87, 80, 76, 72, 70>>,
               <<100, 89, 83, 79, 76, 74>>,
               <<100, 91, 85, 82, 79, 77>> >>

pow(n, d) == Q(PowTable[d][IF n < 1 THEN 1 ELSE n], 100)

\* insert index i into the index list s, already sorted by value (insertion sort)
RECURSIVE InsertSorted(_, _, _)
InsertSorted(a, s, i) ==
    IF s = <<>> THEN <<i>>
    ELSE IF FLt(a[i], a[Head(s)]) THEN <<i>> \o s
    ELSE <<Head(s)>> \o InsertSorted(a, Tail(s), i)

RECURSIVE ArgsortUpTo(_, _)
ArgsortUpTo(a, m) ==
    IF m = 0 THEN <<>> ELSE InsertSorted(a, ArgsortUpTo(a, m - 1), m)

\* np.argsort (1-based indices); numpy sorts arrays this short by insertion
argsort(a) == ArgsortUpTo(a, Len(a))

-----------------------------------------------------------------------------
(* _transform_to_uniform / _transform_from_uniform                         *)

IsNumerical(distribution) == distribution.kind \in {"Float", "Int"}

_transform_to_uniform(samples_dict, space) ==
    [param_name \in DOMAIN samples_dict |->
        LET distribution == space[param_name]
            samples == samples_dict[param_name]
        IN  IF IsNumerical(distribution) /\ distribution.log
            THEN [i \in 1..Len(samples) |-> log(samples[i])]
            ELSE samples]

\* np.round((samples - low) / q) * q + low, then np.clip(samples, low, high)
SnapToGrid(x, distribution) ==
    LET q == distribution.step
        snapped == FAdd(FMul(round(FDiv(FSub(x, distribution.low), q)), q),
                        distribution.low)
    IN  clip(snapped, distribution.low, distribution.high)

\* the snap to the grid without the clip
SnapToGridUnclipped(x, distribution) ==
    LET q == distribution.step
    IN  FAdd(FMul(round(FDiv(FSub(x, distribution.low), q)), q), distribution.low)

\* the inverse transform with every np.clip left out
FromUniformNoClip(x, distribution) ==
    IF distribution.kind = "Float"
    THEN IF distribution.log THEN exp(x)
         ELSE IF distribution.step # None THEN SnapToGridUnclipped(x, distribution)
         ELSE x
    ELSE IF distribution.kind = "Int"
    THEN IF distribution.log THEN round(exp(x))
         ELSE SnapToGridUnclipped(x, distribution)
    ELSE x

\* the inverse transform handling IntDistribution as FloatDistribution
FromUniformIntAsFloat(x, distribution) ==
    IF IsNumerical(distribution)
    THEN IF distribution.log THEN exp(x)
         ELSE IF distribution.step # None THEN SnapToGrid(x, distribution)
         ELSE x
    ELSE x

\* one element of one column of _transform_from_uniform
FromUniform(x, distribution) ==
    IF distribution.kind = "Float"
    THEN IF distribution.log THEN exp(x)
         ELSE IF distribution.step # None THEN SnapToGrid(x, distribution)
         ELSE x
    ELSE IF distribution.kind = "Int"
    THEN IF distribution.log
         THEN clip(round(exp(x)), distribution.low, distribution.high)
         ELSE SnapToGrid(x, distribution)
    ELSE x

_transform_from_uniform(samples_sa, space) ==
    [param_name \in DOMAIN samples_sa |->
        [i \in 1..Len(samples_sa[param_name]) |->
            FromUniform(samples_sa[param_name][i], space[param_name])]]

-----------------------------------------------------------------------------
(* _calculate_categorical_distributions                                    *)

\* weights /= weights.sum(axis=1, keepdims=True)
NormalizeRows(weights) ==
    [i \in 1..Len(weights) |-> Normalize(weights[i])]

\* the builder adding 1 one column off the observed choice
_calculate_categorical_distributions_off_by_one(obs, n_choices, params) ==
    LET n_observations == Len(obs)
        consider_prior == params.consider_prior \/ n_observations = 0
        rows == IF consider_prior THEN n_observations + 1 ELSE n_observations
        value == FDiv(params.prior_weight, Z(rows))
        weights == [i \in 1..rows |-> [j \in 1..n_choices |->
                      IF i <= n_observations /\ obs[i] = Z(j)
                      THEN FAdd(value, Z(1)) ELSE value]]
    IN  [kind |-> "categorical", weights |-> NormalizeRows(weights)]

\* observations hold choice indices 0 .. len(choices) - 1
_calculate_categorical_distributions(obs, n_choices, params) ==
    LET n_observations == Len(obs)
        consider_prior == params.consider_prior \/ n_observations = 0
        rows == IF consider_prior THEN n_observations + 1 ELSE n_observations
        value == FDiv(params.prior_weight, Z(rows))
        weights == [i \in 1..rows |-> [j \in 1..n_choices |->
                      IF i <= n_observations /\ obs[i] = Z(j - 1)
                      THEN FAdd(value, Z(1)) ELSE value]]
    IN  [kind |-> "categorical", weights |-> NormalizeRows(weights)]

-----------------------------------------------------------------------------
(* _calculate_numerical_distributions                                      *)

\* sorted_mus_with_endpoints
WithEndpoints(sorted_mus, low, high, step) ==
    <<FSub(low, FDiv(StepOr0(step), Z(2)))>> \o sorted_mus
        \o <<FAdd(high, FDiv(StepOr0(step), Z(2)))>>

\* sorted_sigmas: the neighbour gaps and the override of the two end ones
SortedSigmas(e, consider_endpoints) ==
    LET m == Len(e) - 2
        gaps == [i \in 1..m |-> FMax(FSub(e[i + 1], e[i]), FSub(e[i + 2], e[i + 1]))]
    IN  IF ~consider_endpoints /\ Len(e) >= 4
        THEN [i \in 1..m |->
                IF i = m THEN FSub(e[m + 1], e[m])
                ELSE IF i = 1 THEN FSub(e[3], e[2])
                ELSE gaps[i]]
        ELSE gaps

\* sorted_sigmas[sorted_indices]: the permutation applied, not undone
UnsortForward(sorted_sigmas, sorted_indices) ==
    [i \in 1..Len(sorted_sigmas) |-> sorted_sigmas[sorted_indices[i]]]

\* sorted_sigmas[np.argsort(sorted_indices)]
Unsort(sorted_sigmas, sorted_indices) ==
    LET back == argsort([i \in 1..Len(sorted_indices) |-> Z(sorted_indices[i])])
    IN  [i \in 1..Len(sorted_sigmas) |-> sorted_sigmas[back[i]]]

\* the values of `sigmas` before the clip: lines 281-304
SigmasBeforeClip(mus, n_observations, low, high, step, params, n_params) ==
    IF params.multivariate
    THEN [i \in 1..Len(mus) |->
            FMul(FMul(SIGMA0_MAGNITUDE, pow(n_observations, n_params)),
                 FAdd(FSub(high, low), StepOr0(step)))]
    ELSE LET sorted_indices == argsort(mus)
             sorted_mus == [i \in 1..Len(mus) |-> mus[sorted_indices[i]]]
             e == WithEndpoints(sorted_mus, low, high, step)
         IN  Unsort(SortedSigmas(e, params.consider_endpoints), sorted_indices)

\* minsigma with the consider_magic_clip flag ignored
MinSigmaIgnoringMagicClip(n_mus, low, high, step, params) == EPS

\* minsigma of the clip
MinSigma(n_mus, low, high, step, params) ==
    IF params.consider_magic_clip
    THEN FDiv(FAdd(FSub(high, low), StepOr0(step)),
              FMin(Z(100), FAdd(Z(1), Z(n_mus))))
    ELSE EPS

\* the builder adding the prior only when consider_prior is set, also with
\* no observation
_calculate_numerical_distributions_prior_unforced(obs, low, high, step, params, n_params) ==
    LET n_observations == Len(obs)
        consider_prior == params.consider_prior
        prior_mu == FMul(Q(1, 2), FAdd(low, high))
        prior_sigma == FAdd(FSub(high, low), StepOr0(step))
        mus == IF consider_prior THEN Append(obs, prior_mu) ELSE obs
        raw == SigmasBeforeClip(mus, n_observations, low, high, step, params, n_params)
        maxsigma == FAdd(FSub(high, low), StepOr0(step))
        minsigma == MinSigma(Len(mus), low, high, step, params)
        sigmas == [i \in 1..Len(mus) |->
                     IF consider_prior /\ i = n_observations + 1 THEN prior_sigma
                     ELSE clip(raw[i], minsigma, maxsigma)]
    IN  [kind |-> IF step = None THEN "truncnorm" ELSE "discrete_truncnorm",
         mus |-> mus, sigmas |-> sigmas, low |-> low, high |-> high, step |-> step]

\* n_params is len(self._search_space)
_calculate_numerical_distributions(obs, low, high, step, params, n_params) ==
    LET n_observations == Len(obs)
        consider_prior == params.consider_prior \/ n_observations = 0
        prior_mu == FMul(Q(1, 2), FAdd(low, high))
        prior_sigma == FAdd(FSub(high, low), StepOr0(step))
        mus == IF consider_prior THEN Append(obs, prior_mu) ELSE obs
        raw == SigmasBeforeClip(mus, n_observations, low, high, step, params, n_params)
        maxsigma == FAdd(FSub(high, low), StepOr0(step))
        minsigma == MinSigma(Len(mus), low, high, step, params)
        sigmas == [i \in 1..Len(mus) |->
                     IF consider_prior /\ i = n_observations + 1 THEN prior_sigma
                     ELSE clip(raw[i], minsigma, maxsigma)]
    IN  [kind |-> IF step = None THEN "truncnorm" ELSE "discrete_truncnorm",
         mus |-> mus, sigmas |-> sigmas, low |-> low, high |-> high, step |-> step]

-----------------------------------------------------------------------------
(* _calculate_distributions                                                *)

_calculate_distributions(transformed_observations, distribution, params, n_params) ==
    IF distribution.kind = "Categorical"
    THEN _calculate_categorical_distributions(
             transformed_observations, distribution.n_choices, params)
    ELSE LET hack == distribution.step # None /\ distribution.log
             low == IF hack
                    THEN log(FSub(distribution.low, FDiv(distribution.step, Z(2))))
                    ELSE IF distribution.log THEN log(distribution.low)
                    ELSE distribution.low
             high == IF hack
                     THEN log(FAdd(distribution.high, FDiv(distribution.step, Z(2))))
                     ELSE IF distribution.log THEN log(distribution.high)
                     ELSE distribution.high
             step == IF hack THEN None ELSE distribution.step
         IN  _calculate_numerical_distributions(
                 transformed_observations, low, high, step, params, n_params)

-----------------------------------------------------------------------------
(* The collaborators: distributions, _sample and _logpdf                   *)

FloatDistribution(low, high, step, is_log) ==
    [kind |-> "Float", low |-> low, high |-> high, step |-> step,
     log |-> is_log, n_choices |-> 0]

IntDistribution(low, high, step, is_log) ==
    [kind |-> "Int", low |-> low, high |-> high, step |-> step,
     log |-> is_log, n_choices |-> 0]

CategoricalDistribution(n_choices) ==
    [kind |-> "Categorical", low |-> Z(0), high |-> Z(n_choices - 1),
     step |-> None, log |-> FALSE, n_choices |-> n_choices]

\* Working-domain values one component of a parameter can yield: a choice
\* index; a point of [low, high] for a bounded normal; a point of
\* [low - step/2, high + step/2] for a discretized one (the half-step margin).
Support(dist, distribution) ==
    IF dist.kind = "categorical"
    THEN {Z(j) : j \in 0..(Len(dist.weights[1]) - 1)}
    ELSE IF dist.kind = "truncnorm"
    THEN IF distribution.log
         THEN {Q(LogTable[q], 100) : q \in
                 {r \in 1..Len(LogTable) : /\ FLe(dist.low, Q(LogTable[r], 100))
                                           /\ FLe(Q(LogTable[r], 100), dist.high)}}
         ELSE {FAdd(dist.low, FMul(Q(j, 2), FSub(dist.high, dist.low))) : j \in 0..2}
    ELSE LET first == FSub(dist.low, FDiv(dist.step, Z(2)))
             cells == FAdd(FDiv(FSub(dist.high, dist.low), dist.step), Z(1))
         IN  {FAdd(first, FMul(Q(j, 4), dist.step)) : j \in 0..(4 * cells.n)}

\* all dicts d over the keys of S with d[key] in S[key]
RECURSIVE Dicts(_)
Dicts(S) ==
    IF DOMAIN S = {} THEN {<<>>}
    ELSE LET key == CHOOSE p \in DOMAIN S : TRUE
             rest == Dicts([p \in DOMAIN S \ {key} |-> S[p]])
         IN  {(key :> v) @@ d : v \in S[key], d \in rest}

\* _sample(mixture, rng, (1,)): any point of the support of the mixture
_sample(mixture, space) ==
    Dicts([p \in DOMAIN space |-> Support(mixture.dists[p], space[p])])

\* _logpdf(mixture, x): a function of the mixture and the point alone; the
\* value is finite exactly inside the support of every parameter
_logpdf(mixture, x) ==
    [of |-> mixture, at |-> x,
     finite |-> \A p \in DOMAIN x :
        LET dist == mixture.dists[p]
        IN  IF dist.kind = "categorical" THEN TRUE
            ELSE /\ FLe(FSub(dist.low, FDiv(StepOr0(dist.step), Z(2))), x[p][1])
                 /\ FLe(x[p][1], FAdd(dist.high, FDiv(StepOr0(dist.step), Z(2))))]

-----------------------------------------------------------------------------
(* The estimator: __init__, sample, log_pdf                                *)

NoMixture == [weights |-> <<>>, dists |-> <<>>]

\* no value yet
Nothing == [op |-> "none"]

n_obs == Len(observations[CHOOSE p \in DOMAIN observations : TRUE])

\* the caller's array after `weights /= weights.sum()` ran on a view of it
WrittenThrough(arr, weights) == weights \o Drop(arr, Len(weights))

__init__ ==
    /\ pc = "new"
    /\ _search_space' = search_space
    /\ LET r == _calculate_weights(predetermined_weights, weights_func_ret,
                                   n_obs, parameters)
           transformed_observations ==
               _transform_to_uniform(observations, search_space)
       IN  IF r.raised # "none"
           THEN /\ pc' = "raised"
                /\ returned' = [op |-> "__init__", raised |-> r.raised]
                /\ UNCHANGED <<_mixture_distribution, predetermined_weights,
                               weights_func_ret>>
           ELSE /\ pc' = "built"
                /\ returned' = returned
                /\ _mixture_distribution' =
                     [weights |-> r.weights,
                      dists |-> [param \in DOMAIN search_space |->
                          _calculate_distributions(
                              transformed_observations[param], search_space[param],
                              parameters, Cardinality(DOMAIN search_space))]]
                /\ predetermined_weights' =
                     IF r.inplace /\ predetermined_weights.given
                     THEN [predetermined_weights EXCEPT
                             !.arr = WrittenThrough(@, r.weights)]
                     ELSE predetermined_weights
                /\ weights_func_ret' =
                     IF r.inplace /\ ~predetermined_weights.given
                     THEN WrittenThrough(weights_func_ret, r.weights)
                     ELSE weights_func_ret
    /\ UNCHANGED <<observations, search_space, parameters, sampled, call>>

\* sample overwriting the first stored weight
sample_writing_back ==
    /\ pc = "built"
    /\ \E sa \in _sample(_mixture_distribution, _search_space) :
          /\ sampled' = [op |-> "sample", sa |-> [p \in DOMAIN sa |-> <<sa[p]>>]]
          /\ returned' = [op |-> "sample",
                          value |-> _transform_from_uniform(sampled'.sa, _search_space)]
          /\ _mixture_distribution' =
               [_mixture_distribution EXCEPT !.weights = <<Z(1)>> \o Tail(@)]
    /\ UNCHANGED <<observations, search_space, parameters, predetermined_weights,
                   weights_func_ret, pc, _search_space, call>>

sample ==
    /\ pc = "built"
    /\ \E sa \in _sample(_mixture_distribution, _search_space) :
          /\ sampled' = [op |-> "sample", sa |-> [p \in DOMAIN sa |-> <<sa[p]>>]]
          /\ returned' = [op |-> "sample",
                          value |-> _transform_from_uniform(sampled'.sa, _search_space)]
    /\ UNCHANGED <<observations, search_space, parameters, predetermined_weights,
                   weights_func_ret, pc, _search_space, _mixture_distribution, call>>

\* the native points log_pdf is asked about: the two bounds of each parameter
Queries(space) ==
    Dicts([p \in DOMAIN space |-> {<<space[p].low>>, <<space[p].high>>}])

log_pdf ==
    /\ pc = "built"
    /\ \E samples_dict \in Queries(_search_space) :
          returned' = [op |-> "log_pdf",
                       value |-> _logpdf(_mixture_distribution,
                           _transform_to_uniform(samples_dict, _search_space))]
    /\ UNCHANGED <<observations, search_space, parameters, predetermined_weights,
                   weights_func_ret, pc, _search_space, _mixture_distribution,
                   sampled, call>>

-----------------------------------------------------------------------------
(* Inputs                                                                  *)

\* all arrays of length n over the set S
RECURSIVE Arrays(_, _)
Arrays(S, n) ==
    IF n = 0 THEN {<<>>}
    ELSE {Append(a, v) : a \in Arrays(S, n - 1), v \in S}

ArraysUpTo(S, n) == UNION {Arrays(S, m) : m \in 0..n}

\* entries a weights array can hold
WeightValues == {Z(-1), Z(0), Z(1), Z(3), NaN, Inf(1)}

\* the search spaces the estimator is built over
SearchSpaces ==
    { "x" :> FloatDistribution(Z(0), Z(4), None, FALSE),
      "x" :> FloatDistribution(Z(0), Z(1), Q(1, 2), FALSE),
      "x" :> FloatDistribution(Z(1), Z(2), None, TRUE),
      "x" :> IntDistribution(Z(0), Z(2), Z(1), FALSE),
      "x" :> IntDistribution(Z(0), Z(4), Z(2), FALSE),
      "x" :> IntDistribution(Z(1), Z(3), Z(1), TRUE),
      "x" :> CategoricalDistribution(3),
      ("x" :> FloatDistribution(Z(0), Z(4), None, FALSE))
          @@ ("y" :> CategoricalDistribution(2)) }

\* native values an observation of a parameter can take
ObsValues(distribution) ==
    IF distribution.kind = "Categorical"
    THEN {Z(j) : j \in 0..(distribution.n_choices - 1)}
    ELSE IF distribution.log THEN {distribution.low, distribution.high}
    ELSE IF distribution.step # None
    THEN {distribution.low, FAdd(distribution.low, distribution.step)}
    ELSE {FAdd(distribution.low,
               FMul(Q(1, 4), FSub(distribution.high, distribution.low))),
          distribution.high}

\* observation dicts of n rows over a search space
ObservationsOf(space, n) ==
    Dicts([p \in DOMAIN space |-> Arrays(ObsValues(space[p]), n)])

Flags(prior_weights) ==
    [consider_prior : BOOLEAN, prior_weight : prior_weights,
     consider_magic_clip : BOOLEAN, consider_endpoints : BOOLEAN,
     multivariate : BOOLEAN]

NotGiven == [given |-> FALSE, arr |-> <<>>]

InitRest ==
    /\ pc = "new"
    /\ _search_space = Nothing
    /\ _mixture_distribution = NoMixture
    /\ sampled = Nothing
    /\ returned = Nothing
    /\ call = Nothing

\* any weights, predetermined or from the weights function, over one plain
\* float parameter
InitWeights ==
    /\ search_space = ("x" :> FloatDistribution(Z(0), Z(4), None, FALSE))
    /\ \E n \in 0..MaxObs :
          /\ observations = ("x" :> [i \in 1..n |-> Z(i % 5)])
          /\ \/ /\ predetermined_weights \in
                     {[given |-> TRUE, arr |-> a] : a \in Arrays(WeightValues, n)}
                /\ weights_func_ret = <<>>
             \/ /\ predetermined_weights = NotGiven
                /\ weights_func_ret \in
                     Arrays(WeightValues, n) \cup Arrays(WeightValues, n + 1)
    /\ parameters \in
         {f \in Flags({Z(1), Q(1, 2)}) :
             f.consider_magic_clip /\ ~f.consider_endpoints /\ ~f.multivariate}
    /\ InitRest

\* any search space and observations, the weights function returning 1, 2, ...
InitSpaces ==
    /\ search_space \in SearchSpaces
    /\ observations \in UNION {ObservationsOf(search_space, n) : n \in 0..MaxObs}
    /\ predetermined_weights = NotGiven
    /\ weights_func_ret = [i \in 1..n_obs |-> Z(i)]
    /\ parameters \in
         {f \in Flags({Z(1)}) : f.consider_magic_clip # f.consider_endpoints}
    /\ InitRest

Init == InitWeights \/ InitSpaces

Next == __init__ \/ sample \/ log_pdf

Spec == Init /\ [][Next]_vars

-----------------------------------------------------------------------------
(* Direct calls of the two distribution builders                           *)

\* working-domain bounds and step of a numerical parameter, with the values
\* its observations take: a plain domain, a stepped one, one narrower than
\* EPS, and the logarithm of [1, 4]
NumericalDomains ==
    { [low |-> Z(0), high |-> Z(4), step |-> None,
       values |-> {Z(0), Z(1), Z(2), Z(4)}],
      [low |-> Z(0), high |-> Z(4), step |-> Z(2),
       values |-> {Z(0), Z(2), Z(4)}],
      [low |-> Z(0), high |-> Q(1, 2000), step |-> None,
       values |-> {Z(0), Q(1, 4000), Q(1, 2000)}],
      [low |-> log(Z(1)), high |-> log(Z(4)), step |-> None,
       values |-> {log(Z(1)), log(Z(2)), log(Z(4))}] }

MaxChoices == 3

InitBuilders ==
    /\ \/ \E dom \in NumericalDomains :
            call \in [fn : {"numerical"},
                      obs : ArraysUpTo(dom.values, MaxObs + 1),
                      low : {dom.low}, high : {dom.high}, step : {dom.step},
                      n_choices : {0},
                      params : Flags({Z(1)}), n_params : 1..2]
       \/ \E n_choices \in 1..MaxChoices :
            call \in [fn : {"categorical"},
                      obs : ArraysUpTo({Z(j) : j \in 0..(n_choices - 1)}, MaxObs + 1),
                      low : {None}, high : {None}, step : {None},
                      n_choices : {n_choices},
                      params : {f \in Flags({Q(1, 2), Z(1), Z(2)}) :
                                  /\ f.consider_magic_clip
                                  /\ ~f.consider_endpoints
                                  /\ ~f.multivariate},
                      n_params : {1}]
    /\ pc = "called"
    /\ observations = Nothing
    /\ search_space = Nothing
    /\ parameters = Nothing
    /\ predetermined_weights = NotGiven
    /\ weights_func_ret = Nothing
    /\ _search_space = Nothing
    /\ _mixture_distribution = NoMixture
    /\ sampled = Nothing
    /\ returned = Nothing

call_numerical ==
    /\ pc = "called"
    /\ call.fn = "numerical"
    /\ returned' = [op |-> "numerical",
                    value |-> _calculate_numerical_distributions(
                                 call.obs, call.low, call.high, call.step,
                                 call.params, call.n_params)]
    /\ pc' = "returned"
    /\ UNCHANGED <<observations, search_space, parameters, predetermined_weights,
                   weights_func_ret, _search_space, _mixture_distribution,
                   sampled, call>>

call_categorical ==
    /\ pc = "called"
    /\ call.fn = "categorical"
    /\ returned' = [op |-> "categorical",
                    value |-> _calculate_categorical_distributions(
                                 call.obs, call.n_choices, call.params)]
    /\ pc' = "returned"
    /\ UNCHANGED <<observations, search_space, parameters, predetermined_weights,
                   weights_func_ret, _search_space, _mixture_distribution,
                   sampled, call>>

NextBuilders == call_numerical \/ call_categorical

SpecBuilders == InitBuilders /\ [][NextBuilders]_vars

-----------------------------------------------------------------------------
(* Properties of _calculate_weights and of construction                    *)

NonNegative(weights) == \A i \in 1..Len(weights) : FLe(Z(0), weights[i])

PriorForced == parameters.consider_prior \/ n_obs = 0

\* C1 as stated: the weight vector of every estimator that was built, from
\* the weights function or from predetermined weights, has no negative entry
\* and sums to 1.
C1_AsStated ==
    pc = "built" =>
        /\ NonNegative(_mixture_distribution.weights)
        /\ FSum(_mixture_distribution.weights) = Z(1)

\* predetermined weights that would pass the checks made of the weights
\* function: finite, non-negative, and of positive sum once the prior weight
\* is appended
UsablePredetermined ==
    LET w == predetermined_weights.arr
    IN  /\ \A i \in 1..Len(w) : isfinite(w[i]) /\ FLe(Z(0), w[i])
        /\ FLt(Z(0), FSum(IF PriorForced THEN Append(w, parameters.prior_weight)
                          ELSE w))

\* C1, amended: a construction that succeeds yields a non-negative weight
\* vector summing to 1 when the weights come from the weights function, and
\* when they are predetermined provided the predetermined entries are finite
\* and non-negative with a positive total (prior weight included).
C1_Amended ==
    [][(/\ pc = "new"
        /\ pc' = "built"
        /\ predetermined_weights.given => UsablePredetermined)
       => /\ NonNegative(_mixture_distribution'.weights)
          /\ FSum(_mixture_distribution'.weights) = Z(1)]_vars

\* Witness of C1: an estimator built from two unequal predetermined weights
\* and the prior weight.
C1_Witness ==
    /\ pc = "built"
    /\ predetermined_weights.given
    /\ _mixture_distribution.weights = <<Q(1, 5), Q(3, 5), Q(1, 5)>>

\* number of components a per-parameter distribution array holds
Components(dist) ==
    IF dist.kind = "categorical" THEN {Len(dist.weights)}
    ELSE {Len(dist.mus), Len(dist.sigmas)}

\* C2: once built, the weight vector and every parameter's distribution
\* array have one common length: n_observations + 1 when consider_prior is
\* set or there is no observation, n_observations otherwise.
C2_Lengths ==
    pc = "built" =>
        LET expected == IF parameters.consider_prior \/ n_obs = 0
                        THEN n_obs + 1 ELSE n_obs
        IN  /\ Len(_mixture_distribution.weights) = expected
            /\ \A p \in DOMAIN search_space :
                  Components(_mixture_distribution.dists[p]) = {expected}

\* Witness of C2: no observation and consider_prior off, yet one component
\* for both parameters of a two-parameter space.
C2_Witness ==
    /\ pc = "built"
    /\ n_obs = 0
    /\ ~parameters.consider_prior
    /\ DOMAIN search_space = {"x", "y"}
    /\ Len(_mixture_distribution.weights) = 1
    /\ Len(_mixture_distribution.dists["x"].mus) = 1
    /\ Len(_mixture_distribution.dists["y"].weights) = 1

\* the entries the checks reject, as the claim words them
Rejected(w) ==
    \/ \E i \in 1..Len(w) : w[i].k = "fin" /\ w[i].n < 0
    \/ \E i \in 1..Len(w) : w[i].k = "inf" /\ w[i].n < 0
    \/ Len(w) > 0 /\ FSum(w).k = "fin" /\ FSum(w).n <= 0
    \/ \E i \in 1..Len(w) : w[i].k # "fin"

\* C3: without predetermined weights, construction raises ValueError and
\* builds no mixture when the first n_observations entries of the weights
\* function's output hold a negative entry, sum to at most 0, or hold a NaN
\* or an infinity; with predetermined weights nothing is checked and the
\* entries, as they are, (with the prior weight) are divided by their sum.
C3_Validation ==
    [][pc = "new" =>
         IF ~predetermined_weights.given
         THEN Rejected(Take(weights_func_ret, n_obs)) =>
                 /\ pc' = "raised"
                 /\ returned'.op = "__init__"
                 /\ returned'.raised = "ValueError"
                 /\ _mixture_distribution' = NoMixture
         ELSE LET w == predetermined_weights.arr
                  total == FSum(IF PriorForced
                                THEN Append(w, parameters.prior_weight) ELSE w)
              IN  /\ pc' = "built"
                  /\ \A i \in 1..n_obs :
                        _mixture_distribution'.weights[i] = FDiv(w[i], total)]_vars

\* Witness of C3: construction raised on an output of the weights function
\* whose only defect is a non-finite entry.
C3_Witness ==
    /\ pc = "raised"
    /\ returned.op = "__init__"
    /\ n_obs = 2
    /\ \E i \in 1..n_obs : ~isfinite(weights_func_ret[i])
    /\ \A i \in 1..n_obs : ~FLt(weights_func_ret[i], Z(0))

\* C10: construction leaves the caller's arrays as they were: neither the
\* predetermined weights nor the array the weights function returned change.
C10_InputsUnchanged ==
    [][/\ predetermined_weights' = predetermined_weights
       /\ weights_func_ret' = weights_func_ret]_vars

-----------------------------------------------------------------------------
(* Properties of sample and log_pdf                                        *)

\* v = low + k * step for an integer k >= 0
OnGrid(v, low, step) ==
    LET k == FDiv(FSub(v, low), step)
    IN  k.k = "fin" /\ k.d = 1 /\ k.n >= 0

\* C4: every value sample returns for a numerical parameter lies in
\* [low, high], and on the grid low + k*step for an integer or stepped one.
C4_InDomain ==
    returned.op = "sample" =>
        \A p \in DOMAIN _search_space :
            LET distribution == _search_space[p]
                v == returned.value[p][1]
            IN  IsNumerical(distribution) =>
                  /\ FLe(distribution.low, v)
                  /\ FLe(v, distribution.high)
                  /\ distribution.step # None =>
                        OnGrid(v, distribution.low, distribution.step)

\* Witness of C4: a draw in the half-step margin below low of a stepped
\* parameter came back as low.
C4_Witness ==
    /\ returned.op = "sample"
    /\ _search_space["x"].step # None
    /\ FLt(sampled.sa["x"][1], _search_space["x"].low)
    /\ returned.value["x"][1] = _search_space["x"].low

\* C5: once built, no step changes the stored mixture or the stored search
\* space, so log_pdf of a fixed query (every parameter at its upper bound)
\* keeps its value.
C5_Immutable ==
    [][pc = "built" =>
         /\ _mixture_distribution' = _mixture_distribution
         /\ _search_space' = _search_space
         /\ LET q == [p \in DOMAIN _search_space |-> <<_search_space[p].high>>]
            IN  _logpdf(_mixture_distribution',
                        _transform_to_uniform(q, _search_space'))
                  = _logpdf(_mixture_distribution,
                            _transform_to_uniform(q, _search_space))]_vars

\* Witness of C5: log_pdf answered after sample had drawn.
C5_Witness ==
    /\ pc = "built"
    /\ sampled.op = "sample"
    /\ returned.op = "log_pdf"
    /\ returned.value.of = _mixture_distribution

\* C6 as stated: for every numerical parameter with log set, Int as well as
\* Float, sample returns exp(x) of the drawn x, unclipped.
C6_AsStated ==
    returned.op = "sample" =>
        \A p \in DOMAIN _search_space :
            IsNumerical(_search_space[p]) /\ _search_space[p].log =>
                returned.value[p][1] = exp(sampled.sa[p][1])

\* C6, amended: a Float parameter with log set comes back as exp(x),
\* unclipped; an Int parameter with log set comes back as exp(x) rounded to
\* the nearest integer and clipped into [low, high].
C6_Amended ==
    returned.op = "sample" =>
        \A p \in DOMAIN _search_space :
            LET distribution == _search_space[p]
                x == sampled.sa[p][1]
                v == returned.value[p][1]
            IN  /\ distribution.kind = "Float" /\ distribution.log => v = exp(x)
                /\ distribution.kind = "Int" /\ distribution.log =>
                      /\ v.d = 1
                      /\ FLe(distribution.low, v) /\ FLe(v, distribution.high)
                      /\ \/ FLe(FSub(exp(x), v), Q(1, 2)) /\ FLe(FSub(v, exp(x)), Q(1, 2))
                         \/ v = distribution.low /\ FLt(exp(x), v)
                         \/ v = distribution.high /\ FLt(v, exp(x))

\* Witness of C6: an Int parameter with log set whose draw, below low - 1/2
\* rounded, came back clipped to low.
C6_Witness ==
    /\ returned.op = "sample"
    /\ _search_space["x"].kind = "Int"
    /\ _search_space["x"].log
    /\ exp(sampled.sa["x"][1]) = Q(1, 2)
    /\ returned.value["x"][1] = Z(1)

-----------------------------------------------------------------------------
(* Properties of the two builders                                          *)

\* C7: with k choices, n observations and prior_weight > 0 the matrix has
\* n rows, one more with the prior (considered, or n = 0), of k columns;
\* every row sums to 1; in an observation's row the observed column exceeds
\* every other column and the other columns are equal; the prior row holds
\* 1/k everywhere.
C7_Categorical ==
    returned.op = "categorical" =>
        LET m == returned.value.weights
            n == Len(call.obs)
            k == call.n_choices
            prior == call.params.consider_prior \/ n = 0
        IN  /\ Len(m) = IF prior THEN n + 1 ELSE n
            /\ \A i \in 1..Len(m) : Len(m[i]) = k /\ FSum(m[i]) = Z(1)
            /\ \A i \in 1..n : \A j \in 1..k : \A l \in 1..k :
                  LET o == call.obs[i].n + 1
                  IN  /\ j # o => FLt(m[i][j], m[i][o])
                      /\ j # o /\ l # o => m[i][j] = m[i][l]
            /\ prior => \A j \in 1..k : m[n + 1][j] = Q(1, k)

\* Witness of C7: two observations of different choices among three, with
\* the prior row.
C7_Witness ==
    /\ returned.op = "categorical"
    /\ call.n_choices = 3
    /\ call.params.consider_prior
    /\ call.obs = <<Z(1), Z(2)>>
    /\ Len(returned.value.weights) = 3
    /\ FLt(returned.value.weights[1][1], returned.value.weights[1][2])

MaxSigmaOf == FAdd(FSub(call.high, call.low), StepOr0(call.step))

\* minsigma as the claim words it; 1e-12 is the module's EPS
MinSigmaOf ==
    IF call.params.consider_magic_clip
    THEN LET len == Len(returned.value.mus)
         IN  FDiv(MaxSigmaOf, Z(IF 1 + len < 100 THEN 1 + len ELSE 100))
    ELSE EPS

HasPrior == call.params.consider_prior \/ Len(call.obs) = 0

\* C8 as stated: every sigma lies in [minsigma, maxsigma], and the prior
\* component's sigma is maxsigma.
C8_AsStated ==
    returned.op = "numerical" =>
        /\ \A i \in 1..Len(returned.value.sigmas) :
              /\ FLe(MinSigmaOf, returned.value.sigmas[i])
              /\ FLe(returned.value.sigmas[i], MaxSigmaOf)
        /\ HasPrior => returned.value.sigmas[Len(call.obs) + 1] = MaxSigmaOf

\* C8, amended: every sigma is at most maxsigma and the prior component's
\* sigma is maxsigma; every sigma is at least minsigma provided
\* minsigma <= maxsigma, which fails only when consider_magic_clip is off and
\* maxsigma is below 1e-12, and then every sigma equals maxsigma.
C8_Amended ==
    returned.op = "numerical" =>
        /\ \A i \in 1..Len(returned.value.sigmas) :
              /\ FLe(returned.value.sigmas[i], MaxSigmaOf)
              /\ IF FLe(MinSigmaOf, MaxSigmaOf)
                 THEN FLe(MinSigmaOf, returned.value.sigmas[i])
                 ELSE /\ ~call.params.consider_magic_clip
                      /\ returned.value.sigmas[i] = MaxSigmaOf
        /\ HasPrior => returned.value.sigmas[Len(call.obs) + 1] = MaxSigmaOf

\* Witness of C8: two equal observations with the prior under the magic
\* clip: their sigma is raised to minsigma = maxsigma / 4, the prior's is
\* maxsigma.
C8_Witness ==
    /\ returned.op = "numerical"
    /\ call.params.consider_magic_clip
    /\ ~call.params.multivariate
    /\ call.params.consider_prior
    /\ call.obs = <<Z(1), Z(1)>>
    /\ call.step = None
    /\ returned.value.sigmas = <<Z(1), Z(1), Z(4)>>

\* place of mus[i] in the sorted sequence, equal values in input order
Place(mus, i) ==
    1 + Cardinality({j \in 1..Len(mus) :
                       \/ FLt(mus[j], mus[i])
                       \/ mus[j] = mus[i] /\ j < i})

\* [low - step/2, sorted mus ..., high + step/2]
Extended(mus) ==
    [r \in 1..(Len(mus) + 2) |->
        IF r = 1 THEN FSub(call.low, FDiv(StepOr0(call.step), Z(2)))
        ELSE IF r = Len(mus) + 2
        THEN FAdd(call.high, FDiv(StepOr0(call.step), Z(2)))
        ELSE mus[CHOOSE i \in 1..Len(mus) : Place(mus, i) = r - 1]]

\* the sigma C9 gives to the component at index i
NeighbourSigma(mus, i) ==
    LET e == Extended(mus)
        r == Place(mus, i) + 1
        left == FSub(e[r], e[r - 1])
        right == FSub(e[r + 1], e[r])
    IN  IF ~call.params.consider_endpoints /\ Len(e) >= 4 /\ r = 2 THEN right
        ELSE IF ~call.params.consider_endpoints /\ Len(e) >= 4 /\ r = Len(e) - 1
        THEN left
        ELSE IF FLt(left, right) THEN right ELSE left

\* the (mu, sigma) pairs of a call, each with the number of times it occurs
Pairs(mus, sigmas) ==
    [pair \in {<<mus[i], sigmas[i]>> : i \in 1..Len(mus)} |->
        Cardinality({i \in 1..Len(mus) : <<mus[i], sigmas[i]>> = pair})]

\* mus with its observations (not the prior) reordered by f
Reordered(mus, n, f) == [i \in 1..Len(mus) |-> IF i <= n THEN mus[f[i]] ELSE mus[i]]

=============================================================================
